---- MODULE Spec2Model ----
(***************************************************************************)
(* Model of the CalorieWise backend: calculator.py (CalorieCalculator) and *)
(* app.py (the Flask handlers that call it).                               *)
(*                                                                         *)
(* Python floats are IEEE-754 binary64.  Every arithmetic step of the      *)
(* calculator is modelled with the rounding the interpreter performs:      *)
(* a float is sign * man * 2^exp with 2^52 <= man < 2^53 (or zero), and    *)
(* each operation computes the exact result and rounds it to 53            *)
(* significant bits, ties to even.  Mantissas exceed the range of the      *)
(* integers of the model checker, so a mantissa is a tuple of four 14-bit  *)
(* limbs, least significant first, and intermediate results are tuples of  *)
(* eight limbs.  Exponent overflow and subnormals lie outside the input    *)
(* ranges explored here and are not modelled.                              *)
(***************************************************************************)
EXTENDS Integers, Sequences, FiniteSets, TLC

(***************************************************************************)
(* Fixed-width naturals: eight limbs, least significant first.             *)
(***************************************************************************)
LimbBits == 14

Base == 16384

Precision == 53

Lb(a, i) == IF i >= 1 /\ i <= Len(a) THEN a[i] ELSE 0

Wide(a) == <<Lb(a, 1), Lb(a, 2), Lb(a, 3), Lb(a, 4), Lb(a, 5), Lb(a, 6), Lb(a, 7), Lb(a, 8)>>

Low4(a) == <<a[1], a[2], a[3], a[4]>>

WZero == <<0, 0, 0, 0, 0, 0, 0, 0>>

WOne == <<1, 0, 0, 0, 0, 0, 0, 0>>

WIsZero(a) == \A i \in 1..Len(a) : a[i] = 0

\* for 0 <= n < 2^31
WFromInt(n) == <<n % Base, (n \div Base) % Base, n \div (Base * Base), 0, 0, 0, 0, 0>>

\* for a < 2^31
WToInt(a) == a[1] + Base * a[2] + Base * Base * a[3]

\* the tuple of the eight limbs of a function on 1..8
W8(f) == <<f[1], f[2], f[3], f[4], f[5], f[6], f[7], f[8]>>

\* a * 2^n, the bits beyond the eighth limb dropped
WShl(a, n) ==
    W8([i \in 1..8 |-> ((Lb(a, i - (n \div LimbBits)) * (2 ^ (n % LimbBits))) % Base)
                       + ((Lb(a, i - (n \div LimbBits) - 1) * (2 ^ (n % LimbBits))) \div Base)])

\* a \div 2^n
WShr(a, n) ==
    W8([i \in 1..8 |-> (Lb(a, i + (n \div LimbBits)) \div (2 ^ (n % LimbBits)))
                       + (Lb(a, i + (n \div LimbBits) + 1) % (2 ^ (n % LimbBits)))
                         * (2 ^ (LimbBits - (n % LimbBits)))])

WBit(a, i) == (Lb(a, (i \div LimbBits) + 1) \div (2 ^ (i % LimbBits))) % 2

\* the natural whose limb i, before carries, is c[i]: a negative c[i]
\* borrows, \div rounding down
WCarry(c) ==
    LET t1 == c[1]
        t2 == c[2] + (t1 \div Base)
        t3 == c[3] + (t2 \div Base)
        t4 == c[4] + (t3 \div Base)
        t5 == c[5] + (t4 \div Base)
        t6 == c[6] + (t5 \div Base)
        t7 == c[7] + (t6 \div Base)
        t8 == c[8] + (t7 \div Base)
    IN  <<t1 % Base, t2 % Base, t3 % Base, t4 % Base,
          t5 % Base, t6 % Base, t7 % Base, t8 % Base>>

WAdd(a, b) == WCarry([i \in 1..8 |-> a[i] + b[i]])

\* a - b for a >= b
WSub(a, b) == WCarry([i \in 1..8 |-> a[i] - b[i]])

\* a * k for a limb k
WScale(a, k) == WCarry([i \in 1..8 |-> a[i] * k])

\* a * b for b of 4 limbs and a product below Base^8
WMul(a, b) ==
    WCarry([k \in 1..8 |-> Lb(a, k) * b[1] + Lb(a, k - 1) * b[2]
                           + Lb(a, k - 2) * b[3] + Lb(a, k - 3) * b[4]])

\* -1, 0, 1 as a < b, a = b, a > b
WCmp(a, b) ==
    LET df == {i \in 1..8 : a[i] # b[i]}
        m  == CHOOSE i \in df : \A j \in df : j <= i
    IN  IF df = {} THEN 0 ELSE IF a[m] > b[m] THEN 1 ELSE -1

BitLenSmall(n) == Cardinality({k \in 0..(LimbBits - 1) : 2 ^ k <= n})

\* number of significant bits of a # 0
WBitLen(a) ==
    LET top == CHOOSE i \in 1..8 : a[i] # 0 /\ \A j \in (i + 1)..8 : a[j] = 0
    IN  LimbBits * (top - 1) + BitLenSmall(a[top])

(***************************************************************************)
(* Schoolbook division by den, a divisor of four limbs (held wide) whose   *)
(* top limb is at least Base / 2.  A step brings one limb down to the      *)
(* remainder r < den, giving r1; the digit estimated from the two leading  *)
(* limbs of r1 exceeds the digit by at most 2.                             *)
(***************************************************************************)
Min(a, b) == IF a < b THEN a ELSE b

DivEstimate(r1, den) == Min((r1[5] * Base + r1[4]) \div den[4], Base - 1)

DivDigit(r1, den, e) ==
    IF WCmp(WScale(den, e), r1) <= 0 THEN e
    ELSE IF WCmp(WScale(den, e - 1), r1) <= 0 THEN e - 1
    ELSE e - 2

DivRemainder(r1, den, d) == [d |-> d, r |-> WSub(r1, WScale(den, d))]

DivStep(r1, den) == DivRemainder(r1, den, DivDigit(r1, den, DivEstimate(r1, den)))

\* r with the limb next brought down
BringDown(r, next) == <<next, r[1], r[2], r[3], r[4], 0, 0, 0>>

\* the quotient, most significant digit first, and the remainder of
\* (r, then the limbs, most significant first) by den
RECURSIVE LongDiv(_, _, _)
LongDivJoin(d, rest) == [q |-> <<d>> \o rest.q, r |-> rest.r]

LongDivAfter(s, limbs, den) == LongDivJoin(s.d, LongDiv(s.r, limbs, den))

LongDiv(r, limbs, den) ==
    IF limbs = <<>> THEN [q |-> <<>>, r |-> r]
    ELSE LongDivAfter(DivStep(BringDown(r, Head(limbs)), den), Tail(limbs), den)

(***************************************************************************)
(* binary64 values                                                         *)
(***************************************************************************)
FZero == [sign |-> 1, man |-> <<0, 0, 0, 0>>, exp |-> 0]

FIsZero(x) == x.man = <<0, 0, 0, 0>>

\* r * 2^e for 2^52 <= r <= 2^53
FPack(sign, r, e) ==
    IF r[4] >= 2048
    THEN [sign |-> sign, man |-> <<0, 0, 0, 1024>>, exp |-> e + 1]
    ELSE [sign |-> sign, man |-> Low4(r), exp |-> e]

\* q and a fraction below it: half says the fraction is at least 1/2, rest
\* that it is neither 0 nor 1/2
FRoundTies(sign, q, e, half, rest) ==
    FPack(sign, IF half /\ (rest \/ q[1] % 2 = 1) THEN WAdd(q, WOne) ELSE q, e)

\* m has Precision + n bits
FRoundAt(sign, m, e, sticky, n) ==
    IF n <= 0
    THEN [sign |-> sign, man |-> Low4(WShl(m, -n)), exp |-> e + n]
    ELSE FRoundTies(sign, WShr(m, n), e + n, WBit(m, n - 1) = 1,
                    sticky \/ WShl(WShr(m, n - 1), n - 1) # m)

\* the double nearest to sign * (m + f) * 2^e, ties to even, where m is a
\* wide natural and 0 <= f < 1 is zero unless sticky
FRound(sign, m, e, sticky) ==
    IF WIsZero(m) THEN FZero
    ELSE FRoundAt(sign, m, e, sticky, WBitLen(m) - Precision)

\* float(n) for an integer |n| < 2^31
FromInt(n) == FRound(IF n < 0 THEN -1 ELSE 1, WFromInt(IF n < 0 THEN -n ELSE n), 0, FALSE)

FNeg(x) == IF FIsZero(x) THEN x ELSE [x EXCEPT !.sign = -x.sign]

FMul(x, y) ==
    IF FIsZero(x) \/ FIsZero(y) THEN FZero
    ELSE FRound(x.sign * y.sign, WMul(x.man, y.man), x.exp + y.exp, FALSE)

\* sa * a + sb * b, times 2^e; c compares a with b
FAddAligned(sa, a, sb, b, e, c) ==
    FRound(IF c >= 0 THEN sa ELSE sb,
           IF sa = sb THEN WAdd(a, b) ELSE IF c >= 0 THEN WSub(a, b) ELSE WSub(b, a),
           e, FALSE)

FAddShifted(sa, a, sb, b, e) == FAddAligned(sa, a, sb, b, e, WCmp(a, b))

\* hi has the larger exponent; an operand below an eighth of the other's last
\* place does not change it
FAddOrdered(hi, lo) ==
    IF hi.exp - lo.exp > Precision + 2 THEN hi
    ELSE FAddShifted(hi.sign, WShl(hi.man, hi.exp - lo.exp), lo.sign, Wide(lo.man), lo.exp)

FAdd(x, y) ==
    IF FIsZero(x) THEN y
    ELSE IF FIsZero(y) THEN x
    ELSE FAddOrdered(IF x.exp >= y.exp THEN x ELSE y, IF x.exp >= y.exp THEN y ELSE x)

FSub(x, y) == FAdd(x, FNeg(y))

\* -1, 0, 1 as |x| < |y|, |x| = |y|, |x| > |y|, for x and y not zero
FCmpAbs(x, y) ==
    IF x.exp > y.exp THEN 1
    ELSE IF x.exp < y.exp THEN -1
    ELSE WCmp(Wide(x.man), Wide(y.man))

\* -1, 0, 1 as x < y, x = y, x > y
FCmp(x, y) ==
    IF FIsZero(x) THEN (IF FIsZero(y) THEN 0 ELSE -y.sign)
    ELSE IF FIsZero(y) THEN x.sign
    ELSE IF x.sign # y.sign THEN x.sign
    ELSE x.sign * FCmpAbs(x, y)

FLt(x, y) == FCmp(x, y) < 0

\* the nearest double to (q + r / den) * 2^e, for q of five digits
FDivRound(sign, qr, e) ==
    FRound(sign, <<qr.q[5], qr.q[4], qr.q[3], qr.q[2], qr.q[1], 0, 0, 0>>, e, ~WIsZero(qr.r))

\* num * Base^4 / den
FDivMantissas(sign, num, den, e) ==
    FDivRound(sign, LongDiv(<<num[2], num[3], num[4], 0>>, <<num[1], 0, 0, 0, 0>>, den), e)

\* x / y for y # 0: the mantissas' quotient to 56 bits and its remainder
FDiv(x, y) ==
    IF FIsZero(x) THEN FZero
    ELSE FDivMantissas(x.sign * y.sign, WShl(x.man, 3), WShl(y.man, 3),
                       x.exp - y.exp - 4 * LimbBits)

\* a decimal literal n / d of the source text or of a JSON body
Dec(n, d) == FDiv(FromInt(n), FromInt(d))

RoundTies(sign, q, half, rest) ==
    sign * (IF half /\ (rest \/ q % 2 = 1) THEN q + 1 ELSE q)

\* round half to even of sign * m * 2^e, as an integer below 2^31
RoundHalfEven(sign, m, e) ==
    IF WIsZero(m) \/ e < -111 THEN 0
    ELSE IF e >= 0 THEN sign * WToInt(WShl(m, e))
    ELSE RoundTies(sign, WToInt(WShr(m, -e)), WBit(m, -e - 1) = 1,
                   WShl(WShr(m, -e - 1), -e - 1) # m)

\* round(x): the nearest integer, ties to even
PyRound(x) == RoundHalfEven(x.sign, Wide(x.man), x.exp)

\* round(x, ndigits): the double nearest to the multiple of 10^-ndigits that
\* is nearest to the exact value of x, ties to even
PyRoundDigits(x, ndigits) ==
    Dec(RoundHalfEven(x.sign, WScale(Wide(x.man), 10 ^ ndigits), x.exp), 10 ^ ndigits)

\* the digits of a decimal literal, four at a time, most significant first
RECURSIVE WFromGroups(_)
WFromGroups(groups) ==
    IF groups = <<>> THEN WZero
    ELSE WAdd(WScale(WFromGroups(SubSeq(groups, 1, Len(groups) - 1)), 10000),
              WFromInt(groups[Len(groups)]))

RECURSIVE WPowTen(_)
WPowTen(k) ==
    IF k = 0 THEN WOne
    ELSE IF k >= 4 THEN WScale(WPowTen(k - 4), 10000)
    ELSE WScale(WPowTen(k - 1), 10)

\* the double nearest to digits / 10^scale, for digits < 2^53 and scale <= 22
DecLong(groups, scale) ==
    FDiv(FRound(1, WFromGroups(groups), 0, FALSE), FRound(1, WPowTen(scale), 0, FALSE))

(***************************************************************************)
(* calculator.py                                                           *)
(***************************************************************************)
VARIABLES
    activity_multipliers,   \* CalorieCalculator.activity_multipliers
    goal_adjustments,       \* CalorieCalculator.goal_adjustments
    requests,               \* the requests in flight, one per position
    responses,              \* the response sent for each, NoResponse before
    invoked,                \* the calculator methods each handler has called
    clock                   \* datetime.now()

vars == <<activity_multipliers, goal_adjustments, requests, responses, invoked, clock>>

\* CalorieCalculator.__init__
InitActivityMultipliers ==
    [sedentary |-> Dec(12, 10), light |-> Dec(1375, 1000), moderate |-> Dec(155, 100),
     active |-> Dec(1725, 1000), extra_active |-> Dec(19, 10)]

InitGoalAdjustments ==
    [lose_fast |-> -1000, lose |-> -500, maintain |-> 0, gain |-> 500, gain_fast |-> 1000]

\* dict.get(key, default)
DictGet(d, key, default) == IF key \in DOMAIN d THEN d[key] ELSE default

\* str.lower() on the gender strings of the requests
Lower(str) ==
    CASE str = "Male" -> "male"
      [] str = "MALE" -> "male"
      [] str = "Female" -> "female"
      [] OTHER -> str

\* the float literals of calculator.py
F0_453592 == Dec(453592, 1000000)

F30_48 == Dec(3048, 100)

F2_54 == Dec(254, 100)

F6_25 == Dec(625, 100)

F1_2 == Dec(12, 10)

F18_5 == Dec(185, 10)

F0_10 == Dec(10, 100)

F0_25 == Dec(25, 100)

F0_30 == Dec(30, 100)

F0_35 == Dec(35, 100)

F0_40 == Dec(40, 100)

Return(v) == [ok |-> TRUE, value |-> v]

Raise(type, msg) == [ok |-> FALSE, type |-> type, error |-> msg]

convert_weight(weight, from_unit) ==
    IF from_unit = "lbs" THEN FMul(weight, F0_453592) ELSE weight

\* a convert_height that reads the height itself as feet
convert_height_from_height(height, from_unit, feet, inches) ==
    IF from_unit = "ft" THEN FMul(height, F30_48) ELSE height

convert_height(height, from_unit, feet, inches) ==
    IF from_unit = "ft"
    THEN FAdd(FMul(feet, F30_48), FMul(inches, F2_54))
    ELSE height

calculate_bmr_mifflin(weight_kg, height_cm, age, gender) ==
    IF Lower(gender) = "male"
    THEN FAdd(FSub(FAdd(FMul(FromInt(10), weight_kg), FMul(F6_25, height_cm)),
                   FMul(FromInt(5), age)),
              FromInt(5))
    ELSE FSub(FSub(FAdd(FMul(FromInt(10), weight_kg), FMul(F6_25, height_cm)),
                   FMul(FromInt(5), age)),
              FromInt(161))

\* a calculate_tdee whose default leaves the BMR as it is
calculate_tdee_default_one(bmr, activity_level) ==
    FMul(bmr, DictGet(activity_multipliers, activity_level, FromInt(1)))

calculate_tdee(bmr, activity_level) ==
    FMul(bmr, DictGet(activity_multipliers, activity_level, F1_2))

\* a calculate_bmi that yields a number for a zero height
calculate_bmi_unchecked(weight_kg, height_cm) ==
    IF FIsZero(FDiv(height_cm, FromInt(100)))
    THEN Return(FZero)
    ELSE Return(FDiv(weight_kg, FMul(FDiv(height_cm, FromInt(100)), FDiv(height_cm, FromInt(100)))))

\* height_m ** 2 is the correctly rounded square (the C library's pow agrees
\* with it on every height of the model); a zero divisor raises
calculate_bmi(weight_kg, height_cm) ==
    LET height_m == FDiv(height_cm, FromInt(100))
        square   == FMul(height_m, height_m)
    IN  IF FIsZero(square)
        THEN Raise("ZeroDivisionError", "float division by zero")
        ELSE Return(FDiv(weight_kg, square))

\* a get_bmi_category whose brackets include their upper boundary
get_bmi_category_inclusive(bmi) ==
    IF FCmp(bmi, F18_5) <= 0 THEN "Underweight"
    ELSE IF FCmp(bmi, FromInt(25)) <= 0 THEN "Normal"
    ELSE IF FCmp(bmi, FromInt(30)) <= 0 THEN "Overweight"
    ELSE "Obese"

get_bmi_category(bmi) ==
    IF FLt(bmi, F18_5) THEN "Underweight"
    ELSE IF FLt(bmi, FromInt(25)) THEN "Normal"
    ELSE IF FLt(bmi, FromInt(30)) THEN "Overweight"
    ELSE "Obese"

None == [none |-> TRUE]

IsNone(v) == "none" \in DOMAIN v

DefaultRatios == [protein |-> F0_30, carbs |-> F0_40, fats |-> F0_30]

MacroEntry(calories, ratio, kcal_per_gram) ==
    [grams   |-> PyRound(FDiv(FMul(calories, ratio), FromInt(kcal_per_gram))),
     percent |-> PyRound(FMul(ratio, FromInt(100)))]

calculate_macros(calories, ratios_arg) ==
    LET ratios == IF IsNone(ratios_arg) THEN DefaultRatios ELSE ratios_arg
    IN  IF "protein" \notin DOMAIN ratios THEN Raise("KeyError", "'protein'")
        ELSE IF "carbs" \notin DOMAIN ratios THEN Raise("KeyError", "'carbs'")
        ELSE IF "fats" \notin DOMAIN ratios THEN Raise("KeyError", "'fats'")
        ELSE Return([protein |-> MacroEntry(calories, ratios.protein, 4),
                     carbs   |-> MacroEntry(calories, ratios.carbs, 4),
                     fats    |-> MacroEntry(calories, ratios.fats, 9)])

\* a generate_meal_plan whose 5-meal fractions add up to 1.05
generate_meal_plan_heavy_lunch(calories, meals) ==
    IF meals = 3
    THEN [breakfast |-> PyRound(FMul(calories, F0_30)),
          lunch     |-> PyRound(FMul(calories, F0_40)),
          dinner    |-> PyRound(FMul(calories, F0_30))]
    ELSE IF meals = 5
    THEN [breakfast |-> PyRound(FMul(calories, F0_25)),
          snack1    |-> PyRound(FMul(calories, F0_10)),
          lunch     |-> PyRound(FMul(calories, F0_35)),
          snack2    |-> PyRound(FMul(calories, F0_10)),
          dinner    |-> PyRound(FMul(calories, F0_25))]
    ELSE [breakfast |-> PyRound(FMul(calories, F0_25)),
          lunch     |-> PyRound(FMul(calories, F0_35)),
          dinner    |-> PyRound(FMul(calories, F0_30)),
          snacks    |-> PyRound(FMul(calories, F0_10))]

generate_meal_plan(calories, meals) ==
    IF meals = 3
    THEN [breakfast |-> PyRound(FMul(calories, F0_30)),
          lunch     |-> PyRound(FMul(calories, F0_40)),
          dinner    |-> PyRound(FMul(calories, F0_30))]
    ELSE IF meals = 5
    THEN [breakfast |-> PyRound(FMul(calories, F0_25)),
          snack1    |-> PyRound(FMul(calories, F0_10)),
          lunch     |-> PyRound(FMul(calories, F0_30)),
          snack2    |-> PyRound(FMul(calories, F0_10)),
          dinner    |-> PyRound(FMul(calories, F0_25))]
    ELSE [breakfast |-> PyRound(FMul(calories, F0_25)),
          lunch     |-> PyRound(FMul(calories, F0_35)),
          dinner    |-> PyRound(FMul(calories, F0_30)),
          snacks    |-> PyRound(FMul(calories, F0_10))]

calculate_weekly_change(daily_deficit_surplus) ==
    FDiv(FromInt(daily_deficit_surplus * 7), FromInt(7700))

\* a return statement that reports the adjustment of a week
calculate_all_return_weekly(weight_kg, height_cm, bmr, tdee, bmi, goal_adjustment, daily_calories) ==
    Return(
      [bmr                        |-> PyRound(bmr),
       tdee                       |-> PyRound(tdee),
       daily_calories             |-> daily_calories,
       bmi                        |-> PyRoundDigits(bmi, 1),
       bmi_category               |-> get_bmi_category(bmi),
       macros                     |-> calculate_macros(FromInt(daily_calories), None).value,
       meal_plan                  |-> generate_meal_plan(FromInt(daily_calories), 4),
       weekly_deficit_surplus     |-> goal_adjustment * 7,
       projected_weekly_change_kg |-> PyRoundDigits(calculate_weekly_change(goal_adjustment), 2),
       weight_kg                  |-> PyRoundDigits(weight_kg, 1),
       height_cm                  |-> PyRoundDigits(height_cm, 1)])

\* calculate_all, one definition for each group of its local variables

\* the return statement
calculate_all_return(weight_kg, height_cm, bmr, tdee, bmi, goal_adjustment, daily_calories) ==
    Return(
      [bmr                        |-> PyRound(bmr),
       tdee                       |-> PyRound(tdee),
       daily_calories             |-> daily_calories,
       bmi                        |-> PyRoundDigits(bmi, 1),
       bmi_category               |-> get_bmi_category(bmi),
       macros                     |-> calculate_macros(FromInt(daily_calories), None).value,
       meal_plan                  |-> generate_meal_plan(FromInt(daily_calories), 4),
       weekly_deficit_surplus     |-> goal_adjustment,
       projected_weekly_change_kg |-> PyRoundDigits(calculate_weekly_change(goal_adjustment), 2),
       weight_kg                  |-> PyRoundDigits(weight_kg, 1),
       height_cm                  |-> PyRoundDigits(height_cm, 1)])

\* a daily target made of the rounded TDEE
calculate_all_goal_rounded_tdee(weight_kg, height_cm, bmr, tdee, bmi, goal_adjustment) ==
    calculate_all_return(weight_kg, height_cm, bmr, tdee, bmi, goal_adjustment,
                         PyRound(tdee) + goal_adjustment)

\* daily_calories = round(tdee + goal_adjustment)
calculate_all_goal(weight_kg, height_cm, bmr, tdee, bmi, goal_adjustment) ==
    calculate_all_return(weight_kg, height_cm, bmr, tdee, bmi, goal_adjustment,
                         PyRound(FAdd(tdee, FromInt(goal_adjustment))))

\* an exception of calculate_bmi leaves calculate_all;
\* goal_adjustment = self.goal_adjustments.get(goal, 0)
calculate_all_bmi(weight_kg, height_cm, bmr, tdee, bmi, goal) ==
    IF ~bmi.ok THEN bmi
    ELSE calculate_all_goal(weight_kg, height_cm, bmr, tdee, bmi.value,
                            DictGet(goal_adjustments, goal, 0))

\* tdee and bmi
calculate_all_bmr(weight_kg, height_cm, bmr, activity_level, goal) ==
    calculate_all_bmi(weight_kg, height_cm, bmr, calculate_tdee(bmr, activity_level),
                      calculate_bmi(weight_kg, height_cm), goal)

\* bmr
calculate_all_metric(weight_kg, height_cm, age, gender, activity_level, goal) ==
    calculate_all_bmr(weight_kg, height_cm,
                      calculate_bmr_mifflin(weight_kg, height_cm, age, gender),
                      activity_level, goal)

\* weight_kg and height_cm: convert_height is called without feet or inches
calculate_all(age, gender, weight, height, activity_level, goal, weight_unit, height_unit) ==
    calculate_all_metric(convert_weight(weight, weight_unit),
                         convert_height(height, height_unit, FZero, FZero),
                         age, gender, activity_level, goal)

(***************************************************************************)
(* app.py                                                                  *)
(***************************************************************************)
\* str(KeyError(key))
KeyErrorStr(key) ==
    CASE key = "age" -> "'age'"
      [] key = "gender" -> "'gender'"
      [] key = "weight" -> "'weight'"
      [] key = "height" -> "'height'"
      [] key = "activity" -> "'activity'"
      [] key = "goal" -> "'goal'"
      [] key = "calories" -> "'calories'"
      [] OTHER -> key

\* jsonify(...) of a success, status 200
Success(data) == [status |-> 200, body |-> [success |-> TRUE, data |-> data]]

\* an exception that no handler catches: the server error of the framework
FailureUncaught(msg) == [status |-> 500, body |-> [success |-> FALSE, error |-> msg]]

\* the except branch of each handler: jsonify(...), 400
Failure(msg) == [status |-> 400, body |-> [success |-> FALSE, error |-> msg]]

\* What a handler does: the response it returns and the calculator methods
\* it has called by then.
Handled(response, calls) == [response |-> response, calls |-> calls]

\* the return statements of calculate: of the try block and of the except
calculate_jsonify(result, now) ==
    IF result.ok
    THEN Handled([status |-> 200,
                  body |-> [success |-> TRUE, data |-> result.value, timestamp |-> now]],
                 <<"calculate_all">>)
    ELSE Handled(Failure(result.error), <<"calculate_all">>)

\* POST /api/calculate.  The arguments of calculate_all are evaluated in the
\* order written, so the first absent key raises before the call.
calculate(data, now) ==
    IF "age" \notin DOMAIN data THEN Handled(Failure(KeyErrorStr("age")), <<>>)
    ELSE IF "gender" \notin DOMAIN data THEN Handled(Failure(KeyErrorStr("gender")), <<>>)
    ELSE IF "weight" \notin DOMAIN data THEN Handled(Failure(KeyErrorStr("weight")), <<>>)
    ELSE IF "height" \notin DOMAIN data THEN Handled(Failure(KeyErrorStr("height")), <<>>)
    ELSE IF "activity" \notin DOMAIN data THEN Handled(Failure(KeyErrorStr("activity")), <<>>)
    ELSE IF "goal" \notin DOMAIN data THEN Handled(Failure(KeyErrorStr("goal")), <<>>)
    ELSE calculate_jsonify(calculate_all(data.age, data.gender, data.weight, data.height,
                                         data.activity, data.goal,
                                         DictGet(data, "weight_unit", "kg"),
                                         DictGet(data, "height_unit", "cm")),
                           now)

\* a default of the handler that is not the calculator's
custom_macros_ratios_even == [protein |-> F0_25, carbs |-> Dec(50, 100), fats |-> F0_25]

\* the default of data.get('ratios', ...)
custom_macros_ratios == [protein |-> F0_30, carbs |-> F0_40, fats |-> F0_30]

\* the return statements of custom_macros
custom_macros_jsonify(macros) ==
    IF macros.ok
    THEN Handled(Success(macros.value), <<"calculate_macros">>)
    ELSE Handled(Failure(macros.error), <<"calculate_macros">>)

\* POST /api/macros
custom_macros(data) ==
    IF "calories" \notin DOMAIN data THEN Handled(Failure(KeyErrorStr("calories")), <<>>)
    ELSE custom_macros_jsonify(
             calculate_macros(data.calories, DictGet(data, "ratios", custom_macros_ratios)))

\* POST /api/meal-plan
meal_plan(data) ==
    IF "calories" \notin DOMAIN data THEN Handled(Failure(KeyErrorStr("calories")), <<>>)
    ELSE LET meals == DictGet(data, "meals", 4)
         IN  Handled(Success(generate_meal_plan(data.calories, meals)),
                     <<"generate_meal_plan">>)

\* GET /api/health
health_check == Handled([status |-> 200, body |-> [status |-> "healthy", version |-> "1.0.0"]], <<>>)

(***************************************************************************)
(* The requests explored.  A request is a route and the JSON body sent to  *)
(* it, a dict from keys to values; every JSON number is a float.           *)
(***************************************************************************)
\* meal-plan and macros requests carry every integer calories value of
\* magnitude up to MaxCal
MaxCal == 120

\* the most requests in flight at once
MaxInFlight == 3

Request(route, body) == [route |-> route, body |-> body]

\* the dict d without the keys ks
Without(d, ks) == [k \in (DOMAIN d) \ ks |-> d[k]]

RequiredKeys == {"age", "gender", "weight", "height", "activity", "goal"}

OptionalKeys == {"weight_unit", "height_unit"}

\* 55.1666666666667, a weight whose TDEE lies just above a half
CraftedWeight == DecLong(<<551, 6666, 6666, 6667>>, 13)

Ages == {FromInt(25)}

Genders == {"male", "Female"}

\* 74, 100 and 120 kg at 200 cm are BMI 18.5, 25 and 30
Weights == {FromInt(74), FromInt(100), FromInt(120), CraftedWeight}

Heights == {FZero, FromInt(175), FromInt(200)}

Activities == {"sedentary", "light", "moderate", "active", "extra_active", "athlete"}

Goals == {"lose_fast", "lose", "maintain", "gain", "gain_fast", "bulk"}

FullBodies ==
    {[age |-> a, gender |-> g, weight |-> w, height |-> h, activity |-> act, goal |-> gl,
      weight_unit |-> wu, height_unit |-> hu] :
        a \in Ages, g \in Genders, w \in Weights, h \in Heights, act \in Activities,
        gl \in Goals, wu \in {"kg", "lbs"}, hu \in {"cm", "ft"}}

BaseBodies ==
    {[age |-> FromInt(25), gender |-> "male", weight |-> FromInt(74), height |-> h,
      activity |-> "moderate", goal |-> "lose", weight_unit |-> wu, height_unit |-> "cm"] :
        h \in {FZero, FromInt(175)}, wu \in {"kg", "lbs"}}

\* every way of leaving keys out of a body
PartialBodies == {Without(b, ks) : b \in BaseBodies, ks \in (SUBSET (RequiredKeys \cup OptionalKeys)) \ {{}}}

CalculateRequests == {Request("/api/calculate", b) : b \in FullBodies \cup PartialBodies}

Calories == {FromInt(c) : c \in (-MaxCal)..MaxCal} \cup {FromInt(2000)}

CustomRatios ==
    {DefaultRatios,
     [protein |-> F0_25, carbs |-> Dec(50, 100), fats |-> F0_25],
     [protein |-> F0_30, carbs |-> F0_40]}

MacrosBodies ==
    {[calories |-> c] : c \in Calories}
    \cup {[calories |-> c, ratios |-> r] : c \in Calories, r \in CustomRatios}
    \cup {[ratios |-> DefaultRatios]}

MealPlanBodies ==
    {[calories |-> c] : c \in Calories}
    \cup {[calories |-> c, meals |-> m] : c \in Calories, m \in {3, 4, 5, 7}}
    \cup {[meals |-> 3]}

Requests ==
    CalculateRequests
    \cup {Request("/api/macros", b) : b \in MacrosBodies}
    \cup {Request("/api/meal-plan", b) : b \in MealPlanBodies}
    \cup {Request("/api/health", None)}

\* the requests that are sent together with others
SharedBody(goal, height) ==
    [age |-> FromInt(25), gender |-> "male", weight |-> FromInt(74), height |-> height,
     activity |-> "athlete", goal |-> goal]

TheCalculation == Request("/api/calculate", SharedBody("gain", FromInt(175)))

SharedRequests ==
    {TheCalculation,
     Request("/api/calculate", SharedBody("maintain", FromInt(175))),
     Request("/api/macros", [calories |-> FromInt(2000)]),
     Request("/api/meal-plan", [calories |-> FromInt(2000), meals |-> 3])}

RECURSIVE Tuples(_, _)
Tuples(S, n) ==
    IF n = 0 THEN {<<>>}
    ELSE {Append(t, r) : t \in Tuples(S, n - 1), r \in S}

\* a request alone, or the calculation in flight together with other requests,
\* served in any order
Workloads ==
    {<<r>> : r \in Requests}
    \cup UNION {{<<TheCalculation>> \o t : t \in Tuples(SharedRequests, n)} :
                    n \in 1..(MaxInFlight - 1)}

NoResponse == [status |-> 0]

Init ==
    /\ activity_multipliers = InitActivityMultipliers
    /\ goal_adjustments = InitGoalAdjustments
    /\ requests \in Workloads
    /\ responses = [i \in 1..Len(requests) |-> NoResponse]
    /\ invoked = [i \in 1..Len(requests) |-> <<>>]
    /\ clock = 0

Pending(i, route) == responses[i] = NoResponse /\ requests[i].route = route

\* a handler that leaves a trace in the calculator's table of goals
RespondWriting(i, handled) ==
    /\ responses' = [responses EXCEPT ![i] = handled.response]
    /\ invoked' = [invoked EXCEPT ![i] = handled.calls]
    /\ goal_adjustments' = [goal_adjustments EXCEPT !.maintain = 100]
    /\ UNCHANGED <<activity_multipliers, requests>>

\* the handler of request i returns; no handler writes the calculator's tables
Respond(i, handled) ==
    /\ responses' = [responses EXCEPT ![i] = handled.response]
    /\ invoked' = [invoked EXCEPT ![i] = handled.calls]
    /\ UNCHANGED <<activity_multipliers, goal_adjustments, requests>>

\* time passes when it is read
Calculate(i) ==
    /\ Pending(i, "/api/calculate")
    /\ Respond(i, calculate(requests[i].body, clock))
    /\ clock' = clock + 1

CustomMacros(i) ==
    /\ Pending(i, "/api/macros")
    /\ Respond(i, custom_macros(requests[i].body))
    /\ UNCHANGED clock

MealPlan(i) ==
    /\ Pending(i, "/api/meal-plan")
    /\ Respond(i, meal_plan(requests[i].body))
    /\ UNCHANGED clock

HealthCheck(i) ==
    /\ Pending(i, "/api/health")
    /\ Respond(i, health_check)
    /\ UNCHANGED clock

Next ==
    \/ \E i \in 1..Len(requests) : Calculate(i)
    \/ \E i \in 1..Len(requests) : CustomMacros(i)
    \/ \E i \in 1..Len(requests) : MealPlan(i)
    \/ \E i \in 1..Len(requests) : HealthCheck(i)

Spec == Init /\ [][Next]_vars


(***************************************************************************)
(* What the properties speak of.                                           *)
(***************************************************************************)
Idx == 1..Len(requests)

Body(i) == requests[i].body

Served(i) == responses[i].status # 0

Succeeded(i) == responses[i].status = 200

Data(i) == responses[i].body.data

Abs(n) == IF n < 0 THEN -n ELSE n

\* the response without the time it was made at
Outcome(response) ==
    IF "success" \notin DOMAIN response.body
    THEN [status |-> response.status, body |-> response.body]
    ELSE IF response.status = 200
    THEN [status |-> 200, success |-> response.body.success, data |-> response.body.data]
    ELSE [status |-> response.status, success |-> response.body.success,
          error |-> response.body.error]

\* a failure of the handler: status 400, success false, the message, no data
IsFailure(response, msg) ==
    /\ response.status = 400
    /\ response.body.success = FALSE
    /\ response.body.error = msg
    /\ "data" \notin DOMAIN response.body

CalculateServed(i) == requests[i].route = "/api/calculate" /\ Served(i)

Complete(i) == RequiredKeys \subseteq DOMAIN Body(i)

WeightUnit(i) == DictGet(Body(i), "weight_unit", "kg")

HeightUnit(i) == DictGet(Body(i), "height_unit", "cm")

\* the unrounded intermediate values of the request's calculation
WeightKg(i) == convert_weight(Body(i).weight, WeightUnit(i))

Bmr(i) == calculate_bmr_mifflin(WeightKg(i), Body(i).height, Body(i).age, Body(i).gender)

Tdee(i) == calculate_tdee(Bmr(i), Body(i).activity)

Bmi(i) == calculate_bmi(WeightKg(i), Body(i).height).value

KnownActivities == {"sedentary", "light", "moderate", "active", "extra_active"}

KnownGoals == {"lose_fast", "lose", "maintain", "gain", "gain_fast"}

\* the adjustment of a goal in kcal per day
GoalDelta(goal) ==
    CASE goal = "lose_fast" -> -1000
      [] goal = "lose" -> -500
      [] goal = "gain" -> 500
      [] goal = "gain_fast" -> 1000
      [] OTHER -> 0

RECURSIVE SumOver(_, _)
SumOver(f, keys) ==
    IF keys = {} THEN 0
    ELSE LET k == CHOOSE x \in keys : TRUE
         IN  f[k] + SumOver(f, keys \ {k})

(***************************************************************************)
(* C1                                                                      *)
(***************************************************************************)
MealPlanServed(i) ==
    /\ requests[i].route = "/api/meal-plan"
    /\ Succeeded(i)

Meals(i) == DictGet(Body(i), "meals", 4)

\* how far the sum of the plan's values is from the calories asked for
Deviation(i) == Abs(SumOver(Data(i), DOMAIN Data(i)) - PyRound(Body(i).calories))

ThreeMealFractions ==
    [breakfast |-> Dec(30, 100), lunch |-> Dec(40, 100), dinner |-> Dec(30, 100)]

FourMealFractions ==
    [breakfast |-> Dec(25, 100), lunch |-> Dec(35, 100), dinner |-> Dec(30, 100),
     snacks |-> Dec(10, 100)]

FiveMealFractions ==
    [breakfast |-> Dec(25, 100), snack1 |-> Dec(10, 100), lunch |-> Dec(30, 100),
     snack2 |-> Dec(10, 100), dinner |-> Dec(25, 100)]

MealFractions(meals) ==
    IF meals = 3 THEN ThreeMealFractions
    ELSE IF meals = 5 THEN FiveMealFractions
    ELSE FourMealFractions

EachMealRounded(i) ==
    Data(i) = [k \in DOMAIN MealFractions(Meals(i)) |->
                  PyRound(FMul(Body(i).calories, MealFractions(Meals(i))[k]))]

\* C1 as stated: for every integer calories value and every meals argument,
\* the values of the meal plan, each round(calories * fraction), add up to
\* within 1 of calories.
C1_SumWithinOne ==
    \A i \in Idx : MealPlanServed(i) => EachMealRounded(i) /\ Deviation(i) <= 1

\* C1 amended: each value of the meal plan is round(calories * fraction); the
\* values add up to within 1 of calories for the 3-meal and 4-meal tables and
\* to within 2 of calories for the 5-meal table.
C1_SumWithinTwo ==
    \A i \in Idx :
        MealPlanServed(i) =>
            /\ EachMealRounded(i)
            /\ Deviation(i) <= IF Meals(i) = 5 THEN 2 ELSE 1

\* a 5-meal plan whose values are 2 away from the calories asked for
C1_Witness ==
    \E i \in Idx : MealPlanServed(i) /\ Meals(i) = 5 /\ Deviation(i) = 2

(***************************************************************************)
(* C10                                                                     *)
(***************************************************************************)
\* daily_calories less the sum of the reported tdee and weekly_deficit_surplus
Inconsistency(i) ==
    Data(i).daily_calories - (Data(i).tdee + Data(i).weekly_deficit_surplus)

PerDayAdjustment(i) ==
    /\ Data(i).weekly_deficit_surplus \in {-1000, -500, 0, 500, 1000}
    /\ Data(i).weekly_deficit_surplus = GoalDelta(Body(i).goal)

\* C10 as stated: in every successful result daily_calories equals the
\* reported tdee plus weekly_deficit_surplus, the latter being the per-day
\* adjustment of the goal.
C10_FieldsAddUp ==
    \A i \in Idx :
        CalculateServed(i) /\ Succeeded(i) => PerDayAdjustment(i) /\ Inconsistency(i) = 0

\* C10 amended: in every successful result weekly_deficit_surplus is the
\* per-day adjustment of the goal, and daily_calories is within 1 of the
\* reported tdee plus weekly_deficit_surplus, and equal to it when the
\* adjustment is 0.
C10_FieldsWithinOne ==
    \A i \in Idx :
        CalculateServed(i) /\ Succeeded(i) =>
            /\ PerDayAdjustment(i)
            /\ Abs(Inconsistency(i)) <= 1
            /\ Data(i).weekly_deficit_surplus = 0 => Inconsistency(i) = 0

\* a successful result whose daily_calories is 1 away from the sum
C10_Witness ==
    \E i \in Idx :
        /\ CalculateServed(i) /\ Succeeded(i)
        /\ Data(i).weekly_deficit_surplus = 500
        /\ Abs(Inconsistency(i)) = 1

(***************************************************************************)
(* C2                                                                      *)
(***************************************************************************)
\* the height in cm that calculate_all works with
HeightCm(i) == convert_height(Body(i).height, HeightUnit(i), FZero, FZero)

ZeroHeightServed(i) ==
    /\ CalculateServed(i)
    /\ Complete(i)
    /\ FIsZero(HeightCm(i))

BmiOfZeroHeightRaises ==
    \A w \in Weights : \A u \in {"kg", "lbs"} :
        /\ ~calculate_bmi(convert_weight(w, u), FZero).ok
        /\ calculate_bmi(convert_weight(w, u), FZero).type = "ZeroDivisionError"

\* C2: calculate_bmi raises for a zero height whatever the weight, and a
\* request to /api/calculate whose height resolves to zero gets no result:
\* calculate_all fails and the response is status 400 with success false and
\* the message of the division by zero.
C2_ZeroHeightFails ==
    /\ BmiOfZeroHeightRaises
    /\ \A i \in Idx :
           ZeroHeightServed(i) =>
               /\ ~calculate_all(Body(i).age, Body(i).gender, Body(i).weight, Body(i).height,
                                 Body(i).activity, Body(i).goal,
                                 WeightUnit(i), HeightUnit(i)).ok
               /\ IsFailure(responses[i], "float division by zero")

\* a served request with a height of 0 cm
C2_Witness ==
    \E i \in Idx :
        /\ ZeroHeightServed(i)
        /\ HeightUnit(i) = "cm"
        /\ Body(i).height = FZero
        /\ responses[i].status = 400

(***************************************************************************)
(* C3                                                                      *)
(***************************************************************************)
Missing(i) == RequiredKeys \ DOMAIN Body(i)

\* the body with the defaults of the units written out
WithUnits(body) ==
    [k \in DOMAIN body \cup OptionalKeys |->
        IF k \in DOMAIN body THEN body[k]
        ELSE IF k = "weight_unit" THEN "kg" ELSE "cm"]

\* C3: a request to /api/calculate that lacks a required key gets status 400
\* with success false, a message naming a missing key and no data, and the
\* calculator is not called; a request with every required key calls the
\* calculator and, its units absent, is answered as with kg and cm.
C3_MissingKeyRejected ==
    \A i \in Idx :
        CalculateServed(i) =>
            IF Missing(i) # {}
            THEN /\ \E k \in Missing(i) :
                        /\ k \in {"age", "gender", "weight", "height", "activity", "goal"}
                        /\ IsFailure(responses[i], "'" \o k \o "'")
                 /\ invoked[i] = <<>>
            ELSE /\ invoked[i] = <<"calculate_all">>
                 /\ Outcome(responses[i]) = Outcome(calculate(WithUnits(Body(i)), 0).response)
                 /\ responses[i].body.success = FALSE =>
                        responses[i].body.error = "float division by zero"

\* a served request without weight and without units
C3_Witness ==
    \E i \in Idx :
        /\ CalculateServed(i)
        /\ Missing(i) = {"weight"}
        /\ DOMAIN Body(i) \cap OptionalKeys = {}
        /\ IsFailure(responses[i], "'weight'")

\* a served request that has every required key and no units
C3_WitnessDefaults ==
    \E i \in Idx :
        /\ CalculateServed(i)
        /\ Missing(i) = {}
        /\ DOMAIN Body(i) \cap OptionalKeys = {}
        /\ Succeeded(i)

(***************************************************************************)
(* C4                                                                      *)
(***************************************************************************)
\* the bracket of an unrounded BMI
Bmi18_5 == Dec(185, 10)

Bmi25 == FromInt(25)

Bmi30 == FromInt(30)

Bracket(bmi) ==
    IF FCmp(bmi, Bmi18_5) < 0 THEN "Underweight"
    ELSE IF FCmp(bmi, Bmi18_5) >= 0 /\ FCmp(bmi, Bmi25) < 0 THEN "Normal"
    ELSE IF FCmp(bmi, Bmi25) >= 0 /\ FCmp(bmi, Bmi30) < 0 THEN "Overweight"
    ELSE "Obese"

\* the BMI values that lie on a boundary and next to one
BoundaryBmis ==
    {Dec(n, 10) : n \in {0, 184, 185, 186, 249, 250, 251, 299, 300, 301, 400}}

BoundariesBracketed ==
    /\ \A b \in BoundaryBmis : get_bmi_category(b) = Bracket(b)
    /\ get_bmi_category(Bmi18_5) = "Normal"
    /\ get_bmi_category(Bmi25) = "Overweight"
    /\ get_bmi_category(Bmi30) = "Obese"

\* C4: the category of a BMI is Underweight below 18.5, Normal from 18.5 to
\* below 25, Overweight from 25 to below 30 and Obese from 30; 18.5 is
\* Normal, 25 is Overweight and 30 is Obese.
C4_BmiBrackets ==
    /\ BoundariesBracketed
    /\ \A i \in Idx :
           CalculateServed(i) /\ Succeeded(i) => Data(i).bmi_category = Bracket(Bmi(i))

\* a result whose unrounded BMI is exactly 25
C4_Witness ==
    \E i \in Idx :
        /\ CalculateServed(i) /\ Succeeded(i)
        /\ FCmp(Bmi(i), Bmi25) = 0
        /\ Data(i).bmi_category = "Overweight"

(***************************************************************************)
(* C5                                                                      *)
(***************************************************************************)
SedentaryMultiplier == Dec(12, 10)

\* C5: an activity level outside the table is computed with the multiplier
\* 1.2 and a goal outside the table with the adjustment 0, as for maintain;
\* neither makes a request fail.
C5_UnknownKeysDefault ==
    \A i \in Idx :
        CalculateServed(i) /\ Complete(i) /\ ~FIsZero(HeightCm(i)) =>
            /\ Body(i).activity \notin KnownActivities \/ Body(i).goal \notin KnownGoals =>
                   Succeeded(i)
            /\ Body(i).activity \notin KnownActivities =>
                   /\ calculate_tdee(Bmr(i), Body(i).activity) = FMul(Bmr(i), SedentaryMultiplier)
                   /\ Data(i).tdee = PyRound(FMul(Bmr(i), SedentaryMultiplier))
            /\ Body(i).goal \notin KnownGoals =>
                   /\ Data(i).weekly_deficit_surplus = 0
                   /\ Data(i) = calculate_all(Body(i).age, Body(i).gender, Body(i).weight,
                                              Body(i).height, Body(i).activity, "maintain",
                                              WeightUnit(i), HeightUnit(i)).value

\* a result for an activity level and a goal that are in no table
C5_Witness ==
    \E i \in Idx :
        /\ CalculateServed(i) /\ Succeeded(i)
        /\ Body(i).activity = "athlete"
        /\ Body(i).goal = "bulk"
        /\ Data(i).tdee = PyRound(FMul(Bmr(i), SedentaryMultiplier))

(***************************************************************************)
(* C6                                                                      *)
(***************************************************************************)
\* C6: no operation changes the tables of the shared calculator, and two
\* requests with the same route and body get the same outcome whatever was
\* served before them or between them.
C6_Deterministic ==
    /\ activity_multipliers = InitActivityMultipliers
    /\ goal_adjustments = InitGoalAdjustments
    /\ \A i \in Idx : \A j \in Idx :
           Served(i) /\ Served(j) /\ requests[i] = requests[j] =>
               Outcome(responses[i]) = Outcome(responses[j])

\* the same calculation served before and after a different one
C6_Witness ==
    /\ Len(requests) = 3
    /\ requests[1] = requests[3]
    /\ requests[2] # requests[1]
    /\ \A i \in Idx : CalculateServed(i) /\ Succeeded(i)
    /\ responses[1].body.timestamp < responses[2].body.timestamp
    /\ responses[2].body.timestamp < responses[3].body.timestamp
    /\ Data(1) = Data(3)
    /\ Data(1) # Data(2)

(***************************************************************************)
(* C7                                                                      *)
(***************************************************************************)
Ratio0_30 == Dec(30, 100)

Ratio0_40 == Dec(40, 100)

\* the breakdown of calories by the ratios 0.30, 0.40 and 0.30
DefaultBreakdown(calories) ==
    [protein |-> [grams   |-> PyRound(FDiv(FMul(calories, Ratio0_30), FromInt(4))),
                  percent |-> 30],
     carbs   |-> [grams   |-> PyRound(FDiv(FMul(calories, Ratio0_40), FromInt(4))),
                  percent |-> 40],
     fats    |-> [grams   |-> PyRound(FDiv(FMul(calories, Ratio0_30), FromInt(9))),
                  percent |-> 30]]

MacrosWithoutRatios(i) ==
    /\ requests[i].route = "/api/macros"
    /\ Served(i)
    /\ "calories" \in DOMAIN Body(i)
    /\ "ratios" \notin DOMAIN Body(i)

\* C7: calculate_macros without ratios returns, for protein and carbs,
\* round(calories * ratio / 4) grams and, for fats, round(calories * ratio / 9)
\* grams, with the ratios 0.30, 0.40, 0.30 and the percents 30, 40, 30; a
\* request to /api/macros without ratios is answered with that breakdown.
C7_DefaultMacros ==
    \A i \in Idx :
        /\ MacrosWithoutRatios(i) =>
               /\ Succeeded(i)
               /\ calculate_macros(Body(i).calories, None).value
                      = DefaultBreakdown(Body(i).calories)
               /\ Data(i) = DefaultBreakdown(Body(i).calories)
        /\ CalculateServed(i) /\ Succeeded(i) =>
               Data(i).macros = DefaultBreakdown(FromInt(Data(i).daily_calories))

\* 2000 kcal without ratios: 150 g protein, 200 g carbs, 67 g fats
C7_Witness ==
    \E i \in Idx :
        /\ MacrosWithoutRatios(i)
        /\ Body(i).calories = FromInt(2000)
        /\ Data(i) = [protein |-> [grams |-> 150, percent |-> 30],
                      carbs   |-> [grams |-> 200, percent |-> 40],
                      fats    |-> [grams |-> 67, percent |-> 30]]

(***************************************************************************)
(* C8                                                                      *)
(***************************************************************************)
\* C8: in a successful result daily_calories is round(tdee + goalDelta) of
\* the unrounded tdee, macros and meal_plan are calculate_macros with the
\* default ratios and generate_meal_plan with the 4-meal table of
\* daily_calories, and projected_weekly_change_kg is goalDelta * 7 / 7700
\* rounded to 2 decimals.
C8_Composition ==
    \A i \in Idx :
        CalculateServed(i) /\ Succeeded(i) =>
            /\ Data(i).daily_calories
                   = PyRound(FAdd(Tdee(i), FromInt(GoalDelta(Body(i).goal))))
            /\ Data(i).macros
                   = calculate_macros(FromInt(Data(i).daily_calories), None).value
            /\ Data(i).meal_plan
                   = generate_meal_plan(FromInt(Data(i).daily_calories), 4)
            /\ Data(i).projected_weekly_change_kg
                   = PyRoundDigits(FDiv(FromInt(GoalDelta(Body(i).goal) * 7), FromInt(7700)), 2)

\* a result whose target differs from the rounded tdee plus the adjustment
C8_Witness ==
    \E i \in Idx :
        /\ CalculateServed(i) /\ Succeeded(i)
        /\ Body(i).goal = "gain_fast"
        /\ Data(i).daily_calories = PyRound(FAdd(Tdee(i), FromInt(1000)))
        /\ Data(i).daily_calories # PyRound(Tdee(i)) + 1000
        /\ Data(i).projected_weekly_change_kg = Dec(91, 100)

(***************************************************************************)
(* C9                                                                      *)
(***************************************************************************)
FeetServed(i) ==
    /\ CalculateServed(i)
    /\ Complete(i)
    /\ "height_unit" \in DOMAIN Body(i)
    /\ Body(i).height_unit = "ft"

====
